---- MODULE Spec2Model ----
(***************************************************************************)
(* Model of the whitespace-cleaner PostToolUse hook                        *)
(* (claude_hooks/hooks/whitespace-cleaner/src/main.rs).                    *)
(*                                                                         *)
(* Strings are sequences of one-character strings, so that is_empty,       *)
(* split_whitespace and Path::extension are computed character by          *)
(* character.  An environment value is a record [set, val]; a value that   *)
(* holds BadByte is not valid Unicode and env::var fails on it.            *)
(* External operations (sed, rustfmt, the remote query) are split into a   *)
(* start step and a return step whose outcome the environment chooses.     *)
(***************************************************************************)
EXTENDS Integers, Sequences, FiniteSets, TLC

VARIABLES
    envFilePaths,   \* CLAUDE_FILE_PATHS in the process environment
    envToolOutput,  \* CLAUDE_TOOL_OUTPUT in the process environment
    envProjectDir,  \* CLAUDE_PROJECT_DIR in the process environment
    cwdOk,          \* whether env::current_dir() succeeds in this process
    file_paths,     \* local of main (line 9)
    tool_output,    \* local of main (line 11)
    project_dir,    \* local of main (line 13)
    cwdAttempted,   \* env::current_dir() has been called
    client,         \* Client::new has run (line 25)
    tokens,         \* the items of file_paths.split_whitespace()
    idx,            \* position of the for loop in tokens (0 before the loop)
    pc,             \* position of the run
    outstanding,    \* external operations issued and not yet returned
    log,            \* every print and every start/return of an operation
    prompts,        \* the prompts handed to client.query, in order
    sedRes,         \* outcome of the current token's sed
    fmtRes,         \* outcome of the current token's rustfmt ("none" if not run)
    exitCode,       \* process exit code, -1 while running
    path,           \* input of the classification runs
    fmtType,        \* type matched at line 97 in a classification run
    promptType      \* type formatted into the prompt in a classification run

vars == <<envFilePaths, envToolOutput, envProjectDir, cwdOk, file_paths,
          tool_output, project_dir, cwdAttempted, client, tokens, idx, pc,
          outstanding, log, prompts, sedRes, fmtRes, exitCode, path, fmtType,
          promptType>>

envVars == <<envFilePaths, envToolOutput, envProjectDir, cwdOk>>
typeVars == <<path, fmtType, promptType>>

----------------------------------------------------------------------------
(* Bounds *)

MaxTokens == 2

----------------------------------------------------------------------------
(* Characters and strings *)

BadByte == "<FF>"

Whitespace == {" ", "\t", "\n"}

EmptyString == <<>>

is_empty(s) == Len(s) = 0

IsUnicode(s) == \A i \in 1..Len(s) : s[i] # BadByte

RECURSIVE SplitFrom(_, _, _, _)
SplitFrom(s, i, cur, acc) ==
    IF i > Len(s)
    THEN IF cur = <<>> THEN acc ELSE Append(acc, cur)
    ELSE IF s[i] \in Whitespace
         THEN SplitFrom(s, i + 1, <<>>, IF cur = <<>> THEN acc ELSE Append(acc, cur))
         ELSE SplitFrom(s, i + 1, Append(cur, s[i]), acc)

split_whitespace(s) == SplitFrom(s, 1, <<>>, <<>>)

----------------------------------------------------------------------------
(* Path::extension, for paths of a single component *)

LastDot(s) ==
    IF \E i \in 1..Len(s) : s[i] = "."
    THEN CHOOSE i \in 1..Len(s) : s[i] = "." /\ \A j \in (i + 1)..Len(s) : s[j] # "."
    ELSE 0

file_name(s) ==
    IF s = <<>> \/ s = <<".">> \/ s = <<".", ".">>
    THEN [some |-> FALSE, val |-> <<>>]
    ELSE [some |-> TRUE, val |-> s]

extension(s) ==
    LET f == file_name(s)
        d == LastDot(f.val)
    IN  IF ~f.some \/ d = 0 \/ d = 1
        THEN [some |-> FALSE, val |-> <<>>]
        ELSE [some |-> TRUE, val |-> SubSeq(f.val, d + 1, Len(f.val))]

LowerChar(c) ==
    CASE c = "R" -> "r" [] c = "S" -> "s" [] c = "J" -> "j" [] c = "O" -> "o"
      [] c = "N" -> "n" [] OTHER -> c

get_file_type_nocase(p) ==
    LET e == extension(p)
        x == [i \in 1..Len(e.val) |-> LowerChar(e.val[i])]
    IN  IF ~e.some THEN "text"
        ELSE IF x = <<"r", "s">> THEN "Rust"
        ELSE IF x = <<"j", "s">> \/ x = <<"t", "s">> THEN "JavaScript/TypeScript"
        ELSE IF x = <<"p", "y">> THEN "Python"
        ELSE IF x = <<"j", "s", "o", "n">> THEN "JSON"
        ELSE IF x = <<"t", "o", "m", "l">> THEN "TOML"
        ELSE IF x = <<"m", "d">> THEN "Markdown"
        ELSE "text"

get_file_type(p) ==
    LET e == extension(p)
    IN  IF ~e.some THEN "text"
        ELSE IF e.val = <<"r", "s">> THEN "Rust"
        ELSE IF e.val = <<"j", "s">> \/ e.val = <<"t", "s">> THEN "JavaScript/TypeScript"
        ELSE IF e.val = <<"p", "y">> THEN "Python"
        ELSE IF e.val = <<"j", "s", "o", "n">> THEN "JSON"
        ELSE IF e.val = <<"t", "o", "m", "l">> THEN "TOML"
        ELSE IF e.val = <<"m", "d">> THEN "Markdown"
        ELSE "text"

analysis_prompt(p, out) ==
    <<"Analyze this ", get_file_type(p),
      " file change for code quality and suggest improvements:\n\nTool Output: ",
      out, "\nFile: ", p>>

----------------------------------------------------------------------------
(* Inputs *)

TokRust == <<"m", ".", "r", "s">>
TokJson == <<"d", ".", "j", "s", "o", "n">>
TokUpper == <<"M", ".", "R", "S">>

TokenPool == {TokRust, TokJson, TokUpper}

\* a token of the pool followed by n - 1 Rust files, separated by "\t\n"
RECURSIVE PathsWith(_)
PathsWith(n) ==
    IF n = 0 THEN {<<>>}
    ELSE IF n = 1 THEN TokenPool
    ELSE {s \o <<"\t", "\n">> \o TokRust : s \in PathsWith(n - 1)}

FilePathsValues ==
    UNION {PathsWith(n) : n \in 0..MaxTokens}
        \cup {<<" ">>, <<"\n", " ", "\t">>, <<" ">> \o TokRust \o <<" ", "\n">>,
              TokRust \o <<" ", " ">> \o TokJson \o <<"\n">>,
              TokRust \o <<" ", BadByte>>}

ToolOutputValues == {<<>>, <<"e", "3">>}

ProjectDirValues == {<<"/", "p">>, <<"/", BadByte>>}

CurrentDir == <<"/", "w">>

Unset == [set |-> FALSE, val |-> <<>>]

EnvOf(values) == {Unset} \cup {[set |-> TRUE, val |-> v] : v \in values}

Stems == {<<>>, <<"a">>, <<"a", ".", "b">>, <<".">>}

Exts ==
    {<<"r", "s">>, <<"j", "s">>, <<"t", "s">>, <<"p", "y">>, <<"j", "s", "o", "n">>,
     <<"t", "o", "m", "l">>, <<"m", "d">>, <<"R", "S">>, <<"R", "s">>,
     <<"J", "S", "O", "N">>, <<"t", "x", "t">>, <<>>, <<"r">>, <<"r", "s", "x">>}

PathInputs ==
    {st \o <<".">> \o e : st \in Stems, e \in Exts}
        \cup {<<"M", "k">>, <<"r", "s">>, <<>>, <<".">>, <<".", ".">>}

----------------------------------------------------------------------------
(* Pieces of main *)

PanicExitCode == 101
ErrorExitCode == 1

Outcomes == {"success", "failure", "launch_error"}
QueryOutcomes == {"ok", "error"}

Ev(k, what, i, arg, res) ==
    [k |-> k, what |-> what, idx |-> i, arg |-> arg, res |-> res]

Op(what, i) == [what |-> what, idx |-> i]

\* env::var: Err when the variable is not present or is not valid Unicode
env_var(v) ==
    IF v.set /\ IsUnicode(v.val)
    THEN [ok |-> TRUE, val |-> v.val]
    ELSE [ok |-> FALSE, val |-> <<>>]

unwrap_or_dot(r) == IF r.ok THEN r.val ELSE <<".">>

\* .unwrap_or_else(|_| String::new())
unwrap_or_new(r) == IF r.ok THEN r.val ELSE EmptyString

current_dir_eager(r) == TRUE

\* the closure of unwrap_or_else runs only on Err
current_dir_called(r) == ~r.ok

after_warning_fallthrough == "loop"

\* return Ok(()) after the warning
after_warning == "done"

should_analyze_always(out) == TRUE

\* if !tool_output.is_empty()
should_analyze(out) == ~is_empty(out)

format_action_json(t) ==
    CASE t = "Rust" -> "rustfmt" [] t = "JSON" -> "rustfmt" [] OTHER -> "none"

\* match get_file_type(file_path) of apply_smart_cleanup
format_action(t) ==
    CASE t = "Rust" -> "rustfmt" [] t = "JSON" -> "notice" [] OTHER -> "none"

cleanup_result_strict(sed, fmt) == IF sed = "success" THEN "Ok" ELSE "Err"

\* apply_smart_cleanup ends with Ok(()) whatever sed and rustfmt did
cleanup_result(sed, fmt) == "Ok"

analyze_result_strict(q) == IF q = "ok" THEN "Ok" ELSE "Err"

\* analyze_with_claude ends with Ok(()) whatever the query did
analyze_result(q) == "Ok"

returned_detached(outs, op) == outs

\* .output() and .await return only when the operation has completed
returned(outs, op) == outs \ {op}

sed_print(i, r) ==
    CASE r = "success" -> Ev("out", "sed_ok", i, <<>>, r)
      [] r = "failure" -> Ev("err", "sed_failed", i, <<>>, r)
      [] OTHER -> Ev("err", "sed_launch", i, <<>>, r)

rustfmt_print(i, r) ==
    IF r = "success" THEN <<Ev("out", "rustfmt_ok", i, <<>>, r)>> ELSE <<>>

query_print(i, r) ==
    IF r = "ok"
    THEN <<Ev("out", "analysis_header", i, <<>>, r), Ev("out", "analysis", i, <<>>, r)>>
    ELSE <<Ev("err", "analysis_failed", i, <<>>, r)>>

----------------------------------------------------------------------------
(* The run *)

Init ==
    /\ envFilePaths \in EnvOf(FilePathsValues)
    /\ envToolOutput \in EnvOf(ToolOutputValues)
    /\ envProjectDir \in EnvOf(ProjectDirValues)
    /\ cwdOk \in BOOLEAN
    /\ file_paths = <<>>
    /\ tool_output = <<>>
    /\ project_dir = <<>>
    /\ cwdAttempted = FALSE
    /\ client = FALSE
    /\ tokens = <<>>
    /\ idx = 0
    /\ pc = "start"
    /\ outstanding = {}
    /\ log = <<>>
    /\ prompts = <<>>
    /\ sedRes = "none"
    /\ fmtRes = "none"
    /\ exitCode = -1
    /\ path = <<>>
    /\ fmtType = "none"
    /\ promptType = "none"

ReadEnv ==
    /\ pc = "start"
    /\ LET fp == env_var(envFilePaths)
           to == env_var(envToolOutput)
           pd == env_var(envProjectDir)
           call == current_dir_called(pd)
       IN  /\ file_paths' = unwrap_or_new(fp)
           /\ tool_output' = unwrap_or_new(to)
           /\ cwdAttempted' = call
           /\ IF call /\ ~cwdOk
              THEN /\ pc' = "aborted"
                   /\ exitCode' = PanicExitCode
                   /\ UNCHANGED project_dir
              ELSE /\ pc' = "banner"
                   /\ project_dir' = IF pd.ok THEN pd.val ELSE CurrentDir
                   /\ UNCHANGED exitCode
    /\ UNCHANGED <<envVars, typeVars, client, tokens, idx, outstanding, log,
                   prompts, sedRes, fmtRes>>

Banner ==
    /\ pc = "banner"
    /\ log' = log \o <<Ev("out", "banner", 0, <<>>, "-"),
                       Ev("out", "project_dir", 0, project_dir, "-")>>
    /\ pc' = "check"
    /\ UNCHANGED <<envVars, typeVars, file_paths, tool_output, project_dir,
                   cwdAttempted, client, tokens, idx, outstanding, prompts,
                   sedRes, fmtRes, exitCode>>

NoPaths ==
    /\ pc = "check"
    /\ is_empty(file_paths)
    /\ log' = Append(log, Ev("out", "warning", 0, <<>>, "-"))
    /\ pc' = after_warning
    /\ exitCode' = IF after_warning = "done" THEN 0 ELSE exitCode
    /\ UNCHANGED <<envVars, typeVars, file_paths, tool_output, project_dir,
                   cwdAttempted, client, tokens, idx, outstanding, prompts,
                   sedRes, fmtRes>>

NewClient ==
    /\ pc = "check"
    /\ ~is_empty(file_paths)
    /\ client' = TRUE
    /\ tokens' = split_whitespace(file_paths)
    /\ idx' = 0
    /\ pc' = "loop"
    /\ UNCHANGED <<envVars, typeVars, file_paths, tool_output, project_dir,
                   cwdAttempted, outstanding, log, prompts, sedRes, fmtRes,
                   exitCode>>

LoopNext ==
    /\ pc = "loop"
    /\ idx < Len(tokens)
    /\ idx' = idx + 1
    /\ log' = Append(log, Ev("out", "processing", idx + 1, tokens[idx + 1], "-"))
    /\ sedRes' = "none"
    /\ fmtRes' = "none"
    /\ pc' = "sed"
    /\ UNCHANGED <<envVars, typeVars, file_paths, tool_output, project_dir,
                   cwdAttempted, client, tokens, outstanding, prompts, exitCode>>

LoopEnd ==
    /\ pc = "loop"
    /\ idx >= Len(tokens)
    /\ log' = Append(log, Ev("out", "success", 0, <<>>, "-"))
    /\ pc' = "done"
    /\ exitCode' = 0
    /\ UNCHANGED <<envVars, typeVars, file_paths, tool_output, project_dir,
                   cwdAttempted, client, tokens, idx, outstanding, prompts,
                   sedRes, fmtRes>>

SedStart ==
    /\ pc = "sed"
    /\ outstanding' = outstanding \cup {Op("sed", idx)}
    /\ log' = Append(log, Ev("start", "sed", idx, tokens[idx], "-"))
    /\ pc' = "sed_wait"
    /\ UNCHANGED <<envVars, typeVars, file_paths, tool_output, project_dir,
                   cwdAttempted, client, tokens, idx, prompts, sedRes, fmtRes,
                   exitCode>>

SedReturn ==
    /\ pc = "sed_wait"
    /\ \E r \in Outcomes :
        /\ outstanding' = returned(outstanding, Op("sed", idx))
        /\ log' = log \o <<Ev("end", "sed", idx, tokens[idx], r), sed_print(idx, r)>>
        /\ sedRes' = r
    /\ pc' = "format"
    /\ UNCHANGED <<envVars, typeVars, file_paths, tool_output, project_dir,
                   cwdAttempted, client, tokens, idx, prompts, fmtRes, exitCode>>

RustfmtStart ==
    /\ pc = "format"
    /\ format_action(get_file_type(tokens[idx])) = "rustfmt"
    /\ outstanding' = outstanding \cup {Op("rustfmt", idx)}
    /\ log' = Append(log, Ev("start", "rustfmt", idx, tokens[idx], "-"))
    /\ pc' = "fmt_wait"
    /\ UNCHANGED <<envVars, typeVars, file_paths, tool_output, project_dir,
                   cwdAttempted, client, tokens, idx, prompts, sedRes, fmtRes,
                   exitCode>>

RustfmtReturn ==
    /\ pc = "fmt_wait"
    /\ \E r \in Outcomes :
        /\ outstanding' = returned(outstanding, Op("rustfmt", idx))
        /\ log' = log \o <<Ev("end", "rustfmt", idx, tokens[idx], r)>>
                      \o rustfmt_print(idx, r)
        /\ fmtRes' = r
    /\ pc' = "cleanup_ret"
    /\ UNCHANGED <<envVars, typeVars, file_paths, tool_output, project_dir,
                   cwdAttempted, client, tokens, idx, prompts, sedRes, exitCode>>

JsonNotice ==
    /\ pc = "format"
    /\ format_action(get_file_type(tokens[idx])) = "notice"
    /\ log' = Append(log, Ev("out", "json_detected", idx, <<>>, "-"))
    /\ pc' = "cleanup_ret"
    /\ UNCHANGED <<envVars, typeVars, file_paths, tool_output, project_dir,
                   cwdAttempted, client, tokens, idx, outstanding, prompts,
                   sedRes, fmtRes, exitCode>>

NoFormat ==
    /\ pc = "format"
    /\ format_action(get_file_type(tokens[idx])) = "none"
    /\ pc' = "cleanup_ret"
    /\ UNCHANGED <<envVars, typeVars, file_paths, tool_output, project_dir,
                   cwdAttempted, client, tokens, idx, outstanding, log, prompts,
                   sedRes, fmtRes, exitCode>>

\* apply_smart_cleanup(file_path).await?
CleanupReturn ==
    /\ pc = "cleanup_ret"
    /\ IF cleanup_result(sedRes, fmtRes) = "Ok"
       THEN pc' = "analyze" /\ UNCHANGED exitCode
       ELSE pc' = "done" /\ exitCode' = ErrorExitCode
    /\ UNCHANGED <<envVars, typeVars, file_paths, tool_output, project_dir,
                   cwdAttempted, client, tokens, idx, outstanding, log, prompts,
                   sedRes, fmtRes>>

QueryStart ==
    /\ pc = "analyze"
    /\ should_analyze(tool_output)
    /\ prompts' = Append(prompts, analysis_prompt(tokens[idx], tool_output))
    /\ outstanding' = outstanding \cup {Op("query", idx)}
    /\ log' = Append(log, Ev("start", "query", idx, tokens[idx], "-"))
    /\ pc' = "query_wait"
    /\ UNCHANGED <<envVars, typeVars, file_paths, tool_output, project_dir,
                   cwdAttempted, client, tokens, idx, sedRes, fmtRes, exitCode>>

\* the match on the query result, Ok(()) and the ? of line 36
QueryReturn ==
    /\ pc = "query_wait"
    /\ \E r \in QueryOutcomes :
        /\ outstanding' = returned(outstanding, Op("query", idx))
        /\ log' = log \o <<Ev("end", "query", idx, tokens[idx], r)>>
                      \o query_print(idx, r)
        /\ IF analyze_result(r) = "Ok"
           THEN pc' = "loop" /\ UNCHANGED exitCode
           ELSE pc' = "done" /\ exitCode' = ErrorExitCode
    /\ UNCHANGED <<envVars, typeVars, file_paths, tool_output, project_dir,
                   cwdAttempted, client, tokens, idx, prompts, sedRes, fmtRes>>

SkipAnalysis ==
    /\ pc = "analyze"
    /\ ~should_analyze(tool_output)
    /\ pc' = "loop"
    /\ UNCHANGED <<envVars, typeVars, file_paths, tool_output, project_dir,
                   cwdAttempted, client, tokens, idx, outstanding, log, prompts,
                   sedRes, fmtRes, exitCode>>

Next ==
    \/ ReadEnv
    \/ Banner
    \/ NoPaths
    \/ NewClient
    \/ LoopNext
    \/ LoopEnd
    \/ SedStart
    \/ SedReturn
    \/ RustfmtStart
    \/ RustfmtReturn
    \/ JsonNotice
    \/ NoFormat
    \/ CleanupReturn
    \/ QueryStart
    \/ QueryReturn
    \/ SkipAnalysis

Spec == Init /\ [][Next]_vars

\* every started step of the run is eventually taken
FairSpec == Spec /\ WF_vars(Next)

----------------------------------------------------------------------------
(* Classification runs: get_file_type applied at its two call sites *)

TypeInit ==
    /\ envFilePaths = Unset
    /\ envToolOutput = Unset
    /\ envProjectDir = Unset
    /\ cwdOk = TRUE
    /\ file_paths = <<>>
    /\ tool_output \in {<<"e", "3">>, <<"x">>}
    /\ project_dir = <<>>
    /\ cwdAttempted = FALSE
    /\ client = FALSE
    /\ tokens = <<>>
    /\ idx = 0
    /\ pc = "classify"
    /\ outstanding = {}
    /\ log = <<>>
    /\ prompts = <<>>
    /\ sedRes = "none"
    /\ fmtRes = "none"
    /\ exitCode = -1
    /\ path \in PathInputs
    /\ fmtType = "none"
    /\ promptType = "none"

\* line 97
CleanupMatch ==
    /\ pc = "classify"
    /\ fmtType' = get_file_type(path)
    /\ pc' = "prompt"
    /\ UNCHANGED <<envVars, file_paths, tool_output, project_dir, cwdAttempted,
                   client, tokens, idx, outstanding, log, prompts, sedRes,
                   fmtRes, exitCode, path, promptType>>

\* lines 45-50
BuildPrompt ==
    /\ pc = "prompt"
    /\ prompts' = <<analysis_prompt(path, tool_output)>>
    /\ promptType' = analysis_prompt(path, tool_output)[2]
    /\ pc' = "classified"
    /\ UNCHANGED <<envVars, file_paths, tool_output, project_dir, cwdAttempted,
                   client, tokens, idx, outstanding, log, sedRes, fmtRes,
                   exitCode, path, fmtType>>

TypeNext == CleanupMatch \/ BuildPrompt

TypeSpec == TypeInit /\ [][TypeNext]_vars

----------------------------------------------------------------------------
(* Observations on a state *)

Ended == pc \in {"done", "aborted"}

LogIdx(k, what) == {j \in 1..Len(log) : log[j].k = k /\ log[j].what = what}

Printed(what) == \E j \in 1..Len(log) : log[j].k \in {"out", "err"} /\ log[j].what = what

StartsOf(what) == SelectSeq(log, LAMBDA e : e.k = "start" /\ e.what = what)

StartCount(what, i) == Cardinality({j \in LogIdx("start", what) : log[j].idx = i})

EndedOp(what, i) == \E j \in LogIdx("end", what) : log[j].idx = i

AnyStart == \E j \in 1..Len(log) : log[j].k = "start"

FailedAt(i) ==
    \E j \in 1..Len(log) :
        /\ log[j].k = "end"
        /\ log[j].idx = i
        /\ log[j].res \in {"failure", "launch_error", "error"}

\* the dispatcher has finished the cleanup of token i
CleanupDone(i) ==
    \/ i < idx
    \/ i = idx /\ pc \in {"cleanup_ret", "analyze", "query_wait", "loop", "done"}

\* the dispatcher has finished the whole iteration for token i
IterationDone(i) == i < idx \/ (i = idx /\ pc \in {"loop", "done"})

IsRs(p) == extension(p).some /\ extension(p).val = <<"r", "s">>

FilePathsAbsent == ~envFilePaths.set \/ envFilePaths.val = <<>>

ToolOutputAbsent == ~envToolOutput.set \/ envToolOutput.val = <<>>

----------------------------------------------------------------------------
(* C1: whenever the whitespace-split token sequence of the file-paths      *)
(* variable is empty (the empty string or only whitespace), a run that     *)
(* returns from main has printed the "No file paths provided" warning and  *)
(* exits with code 0.                                                      *)
C1_EmptyTokensWarn ==
    (pc = "done" /\ envFilePaths.set /\ IsUnicode(envFilePaths.val)
        /\ split_whitespace(envFilePaths.val) = <<>>)
        => (Printed("warning") /\ exitCode = 0)

(* C2 as stated: with the file-paths variable unset or empty, no sed,      *)
(* rustfmt or analysis call is ever issued, and the run that has ended has *)
(* printed the warning and exits with code 0.                              *)
C2_Original ==
    FilePathsAbsent =>
        /\ ~AnyStart /\ outstanding = {} /\ prompts = <<>>
        /\ Ended => (Printed("warning") /\ exitCode = 0)

(* C2 amended: with the file-paths variable unset or empty, no sed,        *)
(* rustfmt or analysis call is ever issued, whatever the tool-output       *)
(* variable; and unless the run aborted at startup, the run that has ended *)
(* has printed the warning and exits with code 0.                          *)
C2_Amended ==
    FilePathsAbsent =>
        /\ ~AnyStart /\ outstanding = {} /\ prompts = <<>>
        /\ pc \in {"start", "banner", "check", "done", "aborted"}
        /\ pc = "done" => (Printed("warning") /\ exitCode = 0)

C2_Witness ==
    /\ pc = "done"
    /\ ~envFilePaths.set
    /\ envToolOutput.set /\ envToolOutput.val # <<>>
    /\ Printed("warning")
    /\ exitCode = 0

C5_FailureIsolation ==
    \A i \in 1..MaxTokens :
        (FailedAt(i) /\ i < Len(tokens))
            ~> (/\ StartCount("sed", i + 1) = 1
                /\ ~is_empty(tool_output) => StartCount("query", i + 1) = 1)

C5_Witness ==
    /\ Len(tokens) >= 2
    /\ \E j \in LogIdx("end", "query") : log[j].idx = 1 /\ log[j].res = "error"
    /\ \E j \in LogIdx("end", "sed") : log[j].idx = 1 /\ log[j].res = "failure"
    /\ StartCount("sed", 2) = 1
    /\ StartCount("query", 2) = 1

(* C6 as stated: a run ends with a non-zero exit exactly when the          *)
(* project-directory variable is unset and the current directory cannot be *)
(* resolved, every other run ends with 0, and with the variable set the    *)
(* current directory is never resolved.                                    *)
C6_Original ==
    /\ Ended => (exitCode # 0 <=> (~envProjectDir.set /\ ~cwdOk))
    /\ Ended => exitCode \in {0, PanicExitCode}
    /\ envProjectDir.set => ~cwdAttempted

(* C6 amended: a run ends with a non-zero exit exactly when the            *)
(* project-directory variable is unset or not valid Unicode and the        *)
(* current directory cannot be resolved; every other run ends with 0       *)
(* whatever sed, rustfmt and the analysis call did; with the variable set  *)
(* to valid Unicode the current directory is never resolved.               *)
C6_Amended ==
    LET readable == envProjectDir.set /\ IsUnicode(envProjectDir.val)
    IN  /\ Ended => (exitCode # 0 <=> (~readable /\ ~cwdOk))
        /\ Ended => exitCode \in {0, PanicExitCode}
        /\ readable => ~cwdAttempted

C6_Witness ==
    /\ pc = "done"
    /\ exitCode = 0
    /\ envProjectDir.set /\ IsUnicode(envProjectDir.val)
    /\ ~cwdOk
    /\ \E i \in 1..Len(tokens) :
        /\ \E j \in LogIdx("end", "sed") : log[j].idx = i /\ log[j].res = "launch_error"
        /\ \E j \in LogIdx("end", "rustfmt") : log[j].idx = i /\ log[j].res = "failure"
        /\ \E j \in LogIdx("end", "query") : log[j].idx = i /\ log[j].res = "error"

(* C7: a token gets one rustfmt invocation if its extension is exactly     *)
(* "rs" and none otherwise (JSON only gets its notice); rustfmt starts     *)
(* right after that token's sed has returned, whatever sed's outcome; the  *)
(* confirmation is printed exactly after a successful rustfmt, and a       *)
(* failed or unlaunchable rustfmt prints nothing.                          *)
C7_RustfmtOnlyForRs ==
    /\ \A i \in 1..Len(tokens) :
        /\ StartCount("rustfmt", i) <= (IF IsRs(tokens[i]) THEN 1 ELSE 0)
        /\ CleanupDone(i) =>
              StartCount("rustfmt", i) = (IF IsRs(tokens[i]) THEN 1 ELSE 0)
        /\ (CleanupDone(i) /\ get_file_type(tokens[i]) = "JSON") =>
              \E j \in 1..Len(log) :
                  log[j].k = "out" /\ log[j].what = "json_detected" /\ log[j].idx = i
    /\ \A j \in LogIdx("start", "rustfmt") :
        /\ j > 2
        /\ log[j - 1].k \in {"out", "err"}
        /\ log[j - 1].what \in {"sed_ok", "sed_failed", "sed_launch"}
        /\ log[j - 2].k = "end" /\ log[j - 2].what = "sed"
        /\ log[j - 2].idx = log[j].idx
    /\ \A j \in LogIdx("end", "rustfmt") :
        IF log[j].res = "success"
        THEN j < Len(log) /\ log[j + 1].k = "out" /\ log[j + 1].what = "rustfmt_ok"
        ELSE j = Len(log) \/ log[j + 1].k = "start"
                \/ log[j + 1].what \in {"processing", "success"}
    /\ \A j \in LogIdx("out", "rustfmt_ok") :
        j > 1 /\ log[j - 1].k = "end" /\ log[j - 1].what = "rustfmt"
              /\ log[j - 1].res = "success"

C7_Witness ==
    /\ pc = "done"
    /\ \E i \in 1..Len(tokens) :
        /\ IsRs(tokens[i])
        /\ \E j \in LogIdx("end", "sed") : log[j].idx = i /\ log[j].res = "launch_error"
        /\ \E j \in LogIdx("end", "rustfmt") : log[j].idx = i /\ log[j].res = "launch_error"
    /\ \E i \in 1..Len(tokens) :
        get_file_type(tokens[i]) = "JSON" /\ StartCount("rustfmt", i) = 0
    /\ ~Printed("rustfmt_ok")

(* C8: at most one external operation is outstanding; operations start in  *)
(* the order sed, rustfmt, analysis call within a token and token by       *)
(* token; an operation starts only after every earlier one has returned.   *)
OpRank(what) == CASE what = "sed" -> 1 [] what = "rustfmt" -> 2 [] OTHER -> 3

C8_StrictSequencing ==
    LET starts == {j \in 1..Len(log) : log[j].k = "start"}
    IN  /\ Cardinality(outstanding) <= 1
        /\ \A j \in starts : \A k \in starts :
            j < k =>
                /\ \/ log[j].idx < log[k].idx
                   \/ log[j].idx = log[k].idx /\ OpRank(log[j].what) < OpRank(log[k].what)
                /\ \E m \in (j + 1)..(k - 1) :
                    /\ log[m].k = "end"
                    /\ log[m].what = log[j].what
                    /\ log[m].idx = log[j].idx
        /\ \A j \in starts :
            \/ Op(log[j].what, log[j].idx) \in outstanding
            \/ \E m \in (j + 1)..Len(log) :
                log[m].k = "end" /\ log[m].what = log[j].what /\ log[m].idx = log[j].idx

C8_Witness ==
    /\ pc = "query_wait"
    /\ idx = 2
    /\ outstanding = {Op("query", 2)}
    /\ EndedOp("rustfmt", 1)
    /\ EndedOp("query", 1)
    /\ EndedOp("rustfmt", 2)

(* C9: the type is decided by the extension alone, case-sensitively: rs is *)
(* Rust, js and ts JavaScript/TypeScript, py Python, json JSON, toml TOML, *)
(* md Markdown, anything else or no extension text; the type matched for   *)
(* the formatter and the type in the analysis prompt of a path are equal.  *)
C9_Classification ==
    LET e == extension(path)
        known == {<<"r", "s">>, <<"j", "s">>, <<"t", "s">>, <<"p", "y">>,
                  <<"j", "s", "o", "n">>, <<"t", "o", "m", "l">>, <<"m", "d">>}
        ok(t) ==
            /\ (e.some /\ e.val = <<"r", "s">>) => t = "Rust"
            /\ (e.some /\ e.val \in {<<"j", "s">>, <<"t", "s">>}) => t = "JavaScript/TypeScript"
            /\ (e.some /\ e.val = <<"p", "y">>) => t = "Python"
            /\ (e.some /\ e.val = <<"j", "s", "o", "n">>) => t = "JSON"
            /\ (e.some /\ e.val = <<"t", "o", "m", "l">>) => t = "TOML"
            /\ (e.some /\ e.val = <<"m", "d">>) => t = "Markdown"
            /\ (~e.some \/ e.val \notin known) => t = "text"
    IN  /\ pc \in {"prompt", "classified"} => ok(fmtType)
        /\ pc = "classified" =>
            /\ ok(promptType)
            /\ promptType = fmtType
            /\ prompts[1][2] = fmtType /\ prompts[1][6] = path

C9_Witness ==
    /\ pc = "classified"
    /\ path = <<"a", ".", "R", "S">>
    /\ fmtType = "text"
    /\ promptType = "text"

(* C10: every run ends (aborted at startup or returned from main); the     *)
(* banner is the first thing printed or done; a finished run has printed   *)
(* exactly one of the warning and the final success line, never both; the  *)
(* success line comes last, after every operation of every token has       *)
(* returned.                                                               *)
C10_Safety ==
    /\ log # <<>> => (log[1].k = "out" /\ log[1].what = "banner")
    /\ (outstanding # {} \/ prompts # <<>>) => Printed("banner")
    /\ ~(Printed("warning") /\ Printed("success"))
    /\ pc = "done" => (Printed("warning") \/ Printed("success"))
    /\ Cardinality(LogIdx("out", "warning")) <= 1
    /\ Cardinality(LogIdx("out", "success")) <= 1
    /\ Printed("success") =>
        /\ log[Len(log)].what = "success"
        /\ outstanding = {}
        /\ \A i \in 1..Len(split_whitespace(file_paths)) :
            /\ EndedOp("sed", i)
            /\ StartCount("rustfmt", i) = 1 => EndedOp("rustfmt", i)
            /\ IsRs(split_whitespace(file_paths)[i]) => EndedOp("rustfmt", i)
            /\ ~is_empty(tool_output) => EndedOp("query", i)

C10_Terminates ==
    [](C10_Safety) /\ <>(Ended)

C10_Witness ==
    /\ pc = "done"
    /\ Printed("success")
    /\ ~Printed("warning")
    /\ Len(tokens) >= 2
    /\ EndedOp("query", 2)

====
